---- MODULE Spec2Model ----
(***************************************************************************)
(* Model of the OAuth 1.0a request-authorization engine of                 *)
(* hono-twitter-oauth: src/oauth1.ts, src/request-params.ts and the        *)
(* request formatter (getFormattedRequestArgs / writeOauthHeaders).        *)
(*                                                                         *)
(* A JavaScript string is a sequence of one-character strings, so that     *)
(* split, startsWith, slice, sort and percent-encoding are computed as the *)
(* code computes them.  A JavaScript object is a function from keys to     *)
(* values; a value is a record [kind, v] with kind "str" (v = <<s>>),      *)
(* "arr" (v = the elements), "buf" (v = <<bytes>>) or "undef" (v = <<>>).  *)
(***************************************************************************)
EXTENDS Integers, Sequences, FiniteSets, TLC

VARIABLES
  FORM_BOUNDARY,  \* request-params.ts module-level boundary, set at load
  pc,             \* position of the caller: "start", "called", "again"
  args,           \* the arguments the caller built, as they were before the call
  caller,         \* the caller's objects (headers, body, query, request) now
  result,         \* what the last call returned (or the error it threw)
  prev,           \* what the call before it returned
  entropy,        \* nonce/timestamp source: draws made so far and last values
  clock,          \* wall clock in milliseconds
  cookies,        \* the cookie jar of the client of the HTTP routes
  history         \* the requests the routes have answered, oldest first

vars == <<FORM_BOUNDARY, pc, args, caller, result, prev, entropy, clock, cookies, history>>

None == [kind |-> "none"]

----------------------------------------------------------------------------
(* Characters and strings *)

Ascii ==
  <<" ","!","\"","#","$","%","&","'","(",")","*","+",",","-",".","/",
    "0","1","2","3","4","5","6","7","8","9",":",";","<","=",">","?",
    "@","A","B","C","D","E","F","G","H","I","J","K","L","M","N","O",
    "P","Q","R","S","T","U","V","W","X","Y","Z","[","\\","]","^","_",
    "grave","a","b","c","d","e","f","g","h","i","j","k","l","m","n","o",
    "p","q","r","s","t","u","v","w","x","y","z","{","|","}","~">>

HexDigits == <<"0","1","2","3","4","5","6","7","8","9","A","B","C","D","E","F">>

AsciiChars == {Ascii[i] : i \in 1..Len(Ascii)}

OrdTable == [c \in AsciiChars |-> 31 + (CHOOSE i \in 1..Len(Ascii) : Ascii[i] = c)]

\* UTF-16 code unit of a character (the order String.prototype.sort uses)
Ord(c) == OrdTable[c]

Chr(n) == Ascii[n - 31]

IsUpper(c) == Ord(c) >= 65 /\ Ord(c) <= 90
IsLower(c) == Ord(c) >= 97 /\ Ord(c) <= 122
IsDigit(c) == Ord(c) >= 48 /\ Ord(c) <= 57

HexTable == [c \in {HexDigits[i] : i \in 1..16} |-> (CHOOSE i \in 1..16 : HexDigits[i] = c) - 1]

HexVal(c) == HexTable[c]

UpperTable == [c \in AsciiChars |-> IF OrdTable[c] >= 97 /\ OrdTable[c] <= 122 THEN Ascii[OrdTable[c] - 63] ELSE c]

\* String.prototype.toUpperCase
toUpperCase(s) == [i \in 1..Len(s) |-> UpperTable[s[i]]]

\* a < b in JavaScript string comparison
RECURSIVE StrLess(_, _)
StrLess(a, b) ==
  IF b = <<>> THEN FALSE
  ELSE IF a = <<>> THEN TRUE
  ELSE IF Head(a) = Head(b) THEN StrLess(Tail(a), Tail(b))
  ELSE Ord(Head(a)) < Ord(Head(b))

\* String.prototype.startsWith
startsWith(s, p) == Len(s) >= Len(p) /\ SubSeq(s, 1, Len(p)) = p

\* index of the first occurrence of the string d in s at or after i, 0 if none
RECURSIVE IndexFrom(_, _, _)
IndexFrom(s, d, i) ==
  IF i + Len(d) - 1 > Len(s) THEN 0
  ELSE IF SubSeq(s, i, i + Len(d) - 1) = d THEN i
  ELSE IndexFrom(s, d, i + 1)

indexOf(s, d) == IndexFrom(s, d, 1)

\* String.prototype.split(d) for a non-empty separator d
RECURSIVE split(_, _)
split(s, d) ==
  LET i == indexOf(s, d)
  IN IF i = 0 THEN <<s>>
     ELSE <<SubSeq(s, 1, i - 1)>> \o split(SubSeq(s, i + Len(d), Len(s)), d)

\* String.prototype.split(d, 2)
split2(s, d) == LET p == split(s, d) IN IF Len(p) > 2 THEN SubSeq(p, 1, 2) ELSE p

\* Array.prototype.join
RECURSIVE join(_, _)
join(parts, d) ==
  IF parts = <<>> THEN <<>>
  ELSE IF Len(parts) = 1 THEN parts[1]
  ELSE parts[1] \o d \o join(Tail(parts), d)

\* s.slice(0, s.length - 1)
dropLast(s) == IF s = <<>> THEN <<>> ELSE SubSeq(s, 1, Len(s) - 1)

\* Array.prototype.sort() on strings (ascending, duplicates kept)
RECURSIVE sortStrings(_)
sortStrings(a) ==
  IF a = <<>> THEN <<>>
  ELSE LET m == CHOOSE i \in 1..Len(a) :
                  \A j \in 1..Len(a) : ~StrLess(a[j], a[i])
       IN <<a[m]>> \o sortStrings(SubSeq(a, 1, m - 1) \o SubSeq(a, m + 1, Len(a)))

\* the elements of a set of strings in ascending order
RECURSIVE sortKeys(_)
sortKeys(S) ==
  IF S = {} THEN <<>>
  ELSE LET m == CHOOSE x \in S : \A y \in S : ~StrLess(y, x)
       IN <<m>> \o sortKeys(S \ {m})

\* Number.prototype.toString for a non-negative integer
RECURSIVE ToDecimal(_)
ToDecimal(n) ==
  IF n < 10 THEN <<Chr(48 + n)>> ELSE ToDecimal(n \div 10) \o <<Chr(48 + (n % 10))>>

----------------------------------------------------------------------------
(* Values and objects *)

Str(s) == [kind |-> "str", v |-> <<s>>]
Arr(a) == [kind |-> "arr", v |-> a]
Buf(b) == [kind |-> "buf", v |-> <<b>>]
Undef  == [kind |-> "undef", v |-> <<>>]

EmptyObj == [k \in {} |-> Undef]

\* { ...obj1, ...obj2 }
Spread(obj1, obj2) ==
  [k \in DOMAIN obj1 \cup DOMAIN obj2 |-> IF k \in DOMAIN obj2 THEN obj2[k] ELSE obj1[k]]

\* obj[key] = val
SetKey(obj, key, val) == [k \in DOMAIN obj \cup {key} |-> IF k = key THEN val ELSE obj[k]]

\* delete obj[key]
DeleteKey(obj, key) == [k \in DOMAIN obj \ {key} |-> obj[k]]

\* JavaScript truthiness of obj[key]
Truthy(obj, key) ==
  /\ key \in DOMAIN obj
  /\ obj[key].kind # "undef"
  /\ (obj[key].kind = "str" => obj[key].v[1] # <<>>)

\* String(value): an array is joined with ","
String(val) ==
  IF val.kind = "arr" THEN join(val.v, <<",">>)
  ELSE IF val.kind = "undef" THEN <<"u","n","d","e","f","i","n","e","d">>
  ELSE val.v[1]

----------------------------------------------------------------------------
(* encode.ts *)

IsUnreserved(c) ==
  IsUpper(c) \/ IsLower(c) \/ IsDigit(c) \/ c \in {"-", "_", ".", "~"}

\* RFC 3986 percent-encoding: unreserved characters stay, every other
\* character becomes %XX in uppercase hexadecimal
percentEncodeTable ==
  [c \in AsciiChars |->
     IF IsUnreserved(c) THEN <<c>>
     ELSE <<"%", HexDigits[(Ord(c) \div 16) + 1], HexDigits[(Ord(c) % 16) + 1]>>]

percentEncodeChar(c) == percentEncodeTable[c]

RECURSIVE percentEncode(_)
percentEncode(s) ==
  IF s = <<>> THEN <<>>
  ELSE IF Len(s) = 1 THEN percentEncodeChar(s[1])
  ELSE LET h == Len(s) \div 2
       IN percentEncode(SubSeq(s, 1, h)) \o percentEncode(SubSeq(s, h + 1, Len(s)))

\* decodeURIComponent on a well-formed ASCII input
RECURSIVE decodeURIComponent(_)
decodeURIComponent(s) ==
  IF s = <<>> THEN <<>>
  ELSE IF Head(s) = "%" /\ Len(s) >= 3
       THEN <<Chr(16 * HexVal(s[2]) + HexVal(s[3]))>> \o decodeURIComponent(SubSeq(s, 4, Len(s)))
       ELSE <<Head(s)>> \o decodeURIComponent(Tail(s))

----------------------------------------------------------------------------
(* oauth1.ts *)

NONCE_LEN == 32

wordCharacters ==
  <<"a","b","c","d","e","f","g","h","i","j","k","l","m","n","o","p","q","r","s","t","u","v","w","x","y","z",
    "A","B","C","D","E","F","G","H","I","J","K","L","M","N","O","P","Q","R","S","T","U","V","W","X","Y","Z",
    "0","1","2","3","4","5","6","7","8","9">>

\* the keys of the OAuth parameter set, and their common prefix
Key ==
  [ prefix           |-> <<"o","a","u","t","h","_">>,
    consumer_key     |-> <<"o","a","u","t","h","_","c","o","n","s","u","m","e","r","_","k","e","y">>,
    nonce            |-> <<"o","a","u","t","h","_","n","o","n","c","e">>,
    signature_method |-> <<"o","a","u","t","h","_","s","i","g","n","a","t","u","r","e","_","m","e","t","h","o","d">>,
    timestamp        |-> <<"o","a","u","t","h","_","t","i","m","e","s","t","a","m","p">>,
    version          |-> <<"o","a","u","t","h","_","v","e","r","s","i","o","n">>,
    token            |-> <<"o","a","u","t","h","_","t","o","k","e","n">>,
    signature        |-> <<"o","a","u","t","h","_","s","i","g","n","a","t","u","r","e">> ]

\* getNonce: rand[i] is Math.trunc(Math.random() * 62) of the i-th iteration
getNonce(rand) == [i \in 1..NONCE_LEN |-> wordCharacters[rand[i] + 1]]

\* getTimestampInSec: now is new Date().getTime()
getTimestampInSec(now) == now \div 1000

\* Object.keys(data).sort().map(key => ({key, value}))
sortObject(data) ==
  LET ks == sortKeys(DOMAIN data)
  IN [i \in 1..Len(ks) |-> [key |-> ks[i], value |-> data[ks[i]]]]

\* { ...(obj1 || {}), ...(obj2 || {}) }
mergeObject(obj1, obj2) == Spread(obj1, obj2)

RECURSIVE deParamFrom(_, _)
deParamFrom(parts, data) ==
  IF parts = <<>> THEN data
  ELSE LET kv    == split(Head(parts), <<"=">>)
           key   == kv[1]
           value == IF Len(kv) >= 2 THEN kv[2] ELSE <<>>
           next  ==
             IF Truthy(data, key)
             THEN LET old == IF data[key].kind = "arr" THEN data[key].v ELSE <<data[key].v[1]>>
                  IN SetKey(data, key, Arr(Append(old, decodeURIComponent(value))))
             ELSE SetKey(data, key, Str(decodeURIComponent(value)))
       IN deParamFrom(Tail(parts), next)

deParam(string) == deParamFrom(split(string, <<"&">>), EmptyObj)

deParamUrl(url) ==
  LET tmp == split(url, <<"?">>)
  IN IF Len(tmp) = 1 THEN EmptyObj ELSE deParam(tmp[2])

percentEncodeValue(val) ==
  IF val.kind = "arr" THEN Arr([i \in 1..Len(val.v) |-> percentEncode(val.v[i])])
  ELSE Str(percentEncode(String(val)))

percentEncodeData(data) ==
  [ek \in {percentEncode(k) : k \in DOMAIN data} |->
     percentEncodeValue(data[CHOOSE k \in DOMAIN data : percentEncode(k) = ek])]

getBaseUrl(url) == split(url, <<"?">>)[1]

\* variant: no "&" after the last element of a sequence
RECURSIVE arrayValString_NoTrailing(_, _, _)
arrayValString_NoTrailing(key, value, i) ==
  IF i >= Len(value) THEN <<>>
  ELSE key \o <<"=">> \o value[i + 1]
       \o (IF i < Len(value) - 1 THEN <<"&">> ELSE <<>>)
       \o arrayValString_NoTrailing(key, value, i + 1)

\* value.forEach((item, i) => ...) of getParameterString, i counted from 0
RECURSIVE arrayValString(_, _, _)
arrayValString(key, value, i) ==
  IF i >= Len(value) THEN <<>>
  ELSE key \o <<"=">> \o value[i + 1]
       \o (IF i < Len(value) THEN <<"&">> ELSE <<>>)
       \o arrayValString(key, value, i + 1)

RECURSIVE paramLoop(_)
paramLoop(baseStringData) ==
  IF baseStringData = <<>> THEN <<>>
  ELSE LET key   == Head(baseStringData).key
           value == Head(baseStringData).value
       IN (IF value.kind = "arr"
           THEN arrayValString(key, sortStrings(value.v), 0)
           ELSE key \o <<"=">> \o value.v[1] \o <<"&">>)
          \o paramLoop(Tail(baseStringData))

\* the object getParameterString serializes
mergedParameters(request, oauthInfo) ==
  mergeObject(oauthInfo, mergeObject(request.data, deParamUrl(request.url)))

getParameterString(request, oauthInfo) ==
  dropLast(paramLoop(sortObject(percentEncodeData(mergedParameters(request, oauthInfo)))))

getBaseString(request, oauthInfo) ==
  toUpperCase(request.method) \o <<"&">> \o percentEncode(getBaseUrl(request.url))
    \o <<"&">> \o percentEncode(getParameterString(request, oauthInfo))

\* tokenSecret is <<>> when it is undefined (tokenSecret || "")
getSigningKey(consumerSecret, tokenSecret) ==
  percentEncode(consumerSecret) \o <<"&">> \o percentEncode(tokenSecret)

\* HMAC-SHA1 in base64, as an injective function of (key, base): the
\* percent-encoded key holds no "+", so the first "+" separates the two
hash(base, key) == <<"h","m","a","c","/">> \o key \o <<"+">> \o base \o <<"=">>

getSignature(request, consumerSecret, tokenSecret, oauthInfo) ==
  hash(getBaseString(request, oauthInfo), getSigningKey(consumerSecret, tokenSecret))

\* the oauthInfo object before the signature is filled in
unsignedOAuthInfo(appConsumerTokens, accessTokens, nonce, timestamp) ==
  LET base == (Key.consumer_key :> Str(appConsumerTokens.key))
              @@ (Key.nonce :> Str(nonce))
              @@ (Key.signature_method :> Str(<<"H","M","A","C","-","S","H","A","1">>))
              @@ (Key.timestamp :> Str(ToDecimal(timestamp)))
              @@ (Key.version :> Str(<<"1",".","0">>))
  IN IF "key" \in DOMAIN accessTokens
     THEN SetKey(base, Key.token, Str(accessTokens.key))
     ELSE base

\* request.data after `if (!request.data) request.data = {}`
requestAfterAuthorize(request) ==
  IF request.hasData THEN request ELSE [request EXCEPT !.hasData = TRUE, !.data = EmptyObj]

\* authorizeOAuth1 with the nonce and the timestamp its two sources returned
authorizeOAuth1(request, appConsumerTokens, accessTokens, nonce, timestamp) ==
  LET oauthInfo == unsignedOAuthInfo(appConsumerTokens, accessTokens, nonce, timestamp)
      req       == requestAfterAuthorize(request)
      secret    == IF "secret" \in DOMAIN accessTokens THEN accessTokens.secret ELSE <<>>
  IN SetKey(oauthInfo, Key.signature,
            Str(getSignature(req, appConsumerTokens.secret, secret, oauthInfo)))

\* variant: every entry is written, whatever its key
RECURSIVE headerLoop_NoFilter(_)
headerLoop_NoFilter(sorted) ==
  IF sorted = <<>> THEN <<>>
  ELSE percentEncode(Head(sorted).key) \o <<"=", "\"">>
       \o percentEncode(String(Head(sorted).value)) \o <<"\"", ",">>
       \o headerLoop_NoFilter(Tail(sorted))

\* the loop of toHeader over the sorted entries
RECURSIVE headerLoop(_)
headerLoop(sorted) ==
  IF sorted = <<>> THEN <<>>
  ELSE (IF indexOf(Head(sorted).key, Key.prefix) # 1 THEN <<>>
        ELSE percentEncode(Head(sorted).key) \o <<"=", "\"">>
             \o percentEncode(String(Head(sorted).value)) \o <<"\"", ",">>)
       \o headerLoop(Tail(sorted))

\* toHeader(oauthInfo).Authorization
toHeader(oauthInfo) ==
  dropLast(<<"O","A","u","t","h"," ">> \o headerLoop(sortObject(oauthInfo)))

----------------------------------------------------------------------------
(* The platform's URL, URLSearchParams and JSON *)

\* index of the first character of s at or after i that is in the set cs,
\* Len(s) + 1 if there is none
RECURSIVE FirstOf(_, _, _)
FirstOf(s, cs, i) ==
  IF i > Len(s) THEN Len(s) + 1
  ELSE IF s[i] \in cs THEN i
  ELSE FirstOf(s, cs, i + 1)

\* new URL(s) for an absolute URL scheme://[user[:password]@]host[/path][?query][#fragment]
\* that needs no normalisation; search keeps its "?" and hash its "#", and
\* both are empty when nothing follows the mark
ParseURL(s) ==
  LET p     == indexOf(s, <<":","/","/">>)
      rest  == SubSeq(s, p + 3, Len(s))
      aEnd  == FirstOf(rest, {"/", "?", "#"}, 1)
      auth  == SubSeq(rest, 1, aEnd - 1)
      at    == indexOf(auth, <<"@">>)
      uinfo == IF at = 0 THEN <<>> ELSE SubSeq(auth, 1, at - 1)
      colon == indexOf(uinfo, <<":">>)
      tail  == SubSeq(rest, aEnd, Len(rest))
      pEnd  == FirstOf(tail, {"?", "#"}, 1)
      path  == SubSeq(tail, 1, pEnd - 1)
      qh    == SubSeq(tail, pEnd, Len(tail))
      qEnd  == FirstOf(qh, {"#"}, 1)
      q     == SubSeq(qh, 1, qEnd - 1)
      h     == SubSeq(qh, qEnd, Len(qh))
  IN [protocol |-> SubSeq(s, 1, p),
      username |-> IF colon = 0 THEN uinfo ELSE SubSeq(uinfo, 1, colon - 1),
      password |-> IF colon = 0 THEN <<>> ELSE SubSeq(uinfo, colon + 1, Len(uinfo)),
      host     |-> SubSeq(auth, at + 1, Len(auth)),
      pathname |-> IF path = <<>> THEN <<"/">> ELSE path,
      search   |-> IF Len(q) <= 1 THEN <<>> ELSE q,
      hash     |-> IF Len(h) <= 1 THEN <<>> ELSE h]

\* url.origin
origin(url) == url.protocol \o <<"/","/">> \o url.host

\* url.hostname
hostname(url) == split(url.host, <<":">>)[1]

\* url.toString()
href(url) ==
  url.protocol \o <<"/","/">>
    \o (IF url.username = <<>> /\ url.password = <<>> THEN <<>>
        ELSE url.username \o (IF url.password = <<>> THEN <<>> ELSE <<":">> \o url.password) \o <<"@">>)
    \o url.host \o url.pathname \o url.search \o url.hash

plusToSpace(s) == [i \in 1..Len(s) |-> IF s[i] = "+" THEN " " ELSE s[i]]

\* the application/x-www-form-urlencoded parser, as a sequence of [name, value]
RECURSIVE parseForm(_)
parseForm(parts) ==
  IF parts = <<>> THEN <<>>
  ELSE IF Head(parts) = <<>> THEN parseForm(Tail(parts))
  ELSE LET e  == indexOf(Head(parts), <<"=">>)
           n  == IF e = 0 THEN Head(parts) ELSE SubSeq(Head(parts), 1, e - 1)
           v  == IF e = 0 THEN <<>> ELSE SubSeq(Head(parts), e + 1, Len(Head(parts)))
       IN <<[name  |-> decodeURIComponent(plusToSpace(n)),
             value |-> decodeURIComponent(plusToSpace(v))]>> \o parseForm(Tail(parts))

\* the entries of url.searchParams, in order
searchParams(url) ==
  IF url.search = <<>> THEN <<>>
  ELSE parseForm(split(SubSeq(url.search, 2, Len(url.search)), <<"&">>))

formEncodeTable ==
  [c \in AsciiChars |->
     IF IsUpper(c) \/ IsLower(c) \/ IsDigit(c) \/ c \in {"*", "-", ".", "_"} THEN <<c>>
     ELSE IF c = " " THEN <<"+">>
     ELSE <<"%", HexDigits[(Ord(c) \div 16) + 1], HexDigits[(Ord(c) % 16) + 1]>>]

formEncodeChar(c) == formEncodeTable[c]

\* the application/x-www-form-urlencoded byte serializer
RECURSIVE formEncode(_)
formEncode(s) ==
  IF s = <<>> THEN <<>>
  ELSE IF Len(s) = 1 THEN formEncodeChar(s[1])
  ELSE LET h == Len(s) \div 2
       IN formEncode(SubSeq(s, 1, h)) \o formEncode(SubSeq(s, h + 1, Len(s)))

\* URLSearchParams.prototype.toString() of a sequence of [name, value]
serializeForm(entries) ==
  join([i \in 1..Len(entries) |->
          formEncode(entries[i].name) \o <<"=">> \o formEncode(entries[i].value)], <<"&">>)

\* the entries of an object in key order; a buffer converts to its bytes as text
objectEntries(obj) ==
  LET ks == sortKeys(DOMAIN obj)
  IN [i \in 1..Len(ks) |-> [name |-> ks[i], value |-> String(obj[ks[i]])]]

jsonChar(c) == IF c \in {"\"", "\\"} THEN <<"\\", c>> ELSE <<c>>

RECURSIVE jsonEscape(_)
jsonEscape(s) ==
  IF s = <<>> THEN <<>>
  ELSE IF Len(s) = 1 THEN jsonChar(s[1])
  ELSE LET h == Len(s) \div 2
       IN jsonEscape(SubSeq(s, 1, h)) \o jsonEscape(SubSeq(s, h + 1, Len(s)))

jsonString(s) == <<"\"">> \o jsonEscape(s) \o <<"\"">>

jsonValue(val) ==
  IF val.kind = "arr"
  THEN <<"[">> \o join([i \in 1..Len(val.v) |-> jsonString(val.v[i])], <<",">>) \o <<"]">>
  ELSE IF val.kind = "buf"
  THEN <<"{","\"","t","y","p","e","\"",":","\"","B","u","f","f","e","r","\"",",","\"","d","a","t","a","\"",":","[">>
       \o join([i \in 1..Len(val.v[1]) |-> ToDecimal(Ord(val.v[1][i]))], <<",">>) \o <<"]","}">>
  ELSE jsonString(val.v[1])

\* JSON.stringify of an object; members whose value is undefined are left out
jsonStringify(obj) ==
  LET ks == sortKeys({k \in DOMAIN obj : obj[k].kind # "undef"})
  IN <<"{">> \o join([i \in 1..Len(ks) |-> jsonString(ks[i]) \o <<":">> \o jsonValue(obj[ks[i]])], <<",">>)
     \o <<"}">>

----------------------------------------------------------------------------
(* request-params.ts *)

\* the header names the formatter reads and writes
Header ==
  [ content_type  |-> <<"c","o","n","t","e","n","t","-","t","y","p","e">>,
    user_agent    |-> <<"x","-","u","s","e","r","-","a","g","e","n","t">>,
    Authorization |-> <<"A","u","t","h","o","r","i","z","a","t","i","o","n">> ]

\* the content types constructBodyParams sets
ContentType ==
  [ JSON |-> <<"a","p","p","l","i","c","a","t","i","o","n","/","j","s","o","n",";","c","h","a","r","s","e","t","=","U","T","F","-","8">>,
    URL  |-> <<"a","p","p","l","i","c","a","t","i","o","n","/","x","-","w","w","w","-","f","o","r","m","-","u","r","l","e","n","c","o","d","e","d",";","c","h","a","r","s","e","t","=","U","T","F","-","8">>,
    FORM |-> <<"m","u","l","t","i","p","a","r","t","/","f","o","r","m","-","d","a","t","a",";"," ","b","o","u","n","d","a","r","y","=">> ]

JSON_1_1_ENDPOINTS ==
  { <<"d","i","r","e","c","t","_","m","e","s","s","a","g","e","s","/","e","v","e","n","t","s","/","n","e","w",".","j","s","o","n">>,
    <<"d","i","r","e","c","t","_","m","e","s","s","a","g","e","s","/","w","e","l","c","o","m","e","_","m","e","s","s","a","g","e","s","/","n","e","w",".","j","s","o","n">>,
    <<"d","i","r","e","c","t","_","m","e","s","s","a","g","e","s","/","w","e","l","c","o","m","e","_","m","e","s","s","a","g","e","s","/","r","u","l","e","s","/","n","e","w",".","j","s","o","n">>,
    <<"m","e","d","i","a","/","m","e","t","a","d","a","t","a","/","c","r","e","a","t","e",".","j","s","o","n">>,
    <<"c","o","l","l","e","c","t","i","o","n","s","/","e","n","t","r","i","e","s","/","c","u","r","a","t","e",".","j","s","o","n">> }

\* generateFormBoundary: digits[i] is Math.floor(Math.random() * 10) of the i-th iteration
generateFormBoundary(digits) ==
  [i \in 1..26 |-> "-"] \o [i \in 1..24 |-> Chr(48 + digits[i])]

getFormHeaders(boundary) == (Header.content_type :> Str(ContentType.FORM \o boundary))

formatQueryToString(query) ==
  [k \in {p \in DOMAIN query : query[p].kind # "undef"} |-> Str(String(query[k]))]

autoDetectBodyType(url) ==
  IF startsWith(url.pathname, <<"/","2","/">>) \/ startsWith(url.pathname, <<"/","l","a","b","s","/","2","/">>)
  THEN (IF startsWith(url.password, <<"/","2","/","o","a","u","t","h","2">>) THEN "url" ELSE "json")
  ELSE IF hostname(url) = <<"u","p","l","o","a","d",".","t","w","i","t","t","e","r",".","c","o","m">>
  THEN (IF url.pathname = <<"/","1",".","1","/","m","e","d","i","a","/","u","p","l","o","a","d",".","j","s","o","n">>
        THEN "form-data" ELSE "json")
  ELSE LET parts == split2(url.pathname, <<"/","1",".","1","/">>)
       IN IF Len(parts) >= 2 /\ parts[2] \in JSON_1_1_ENDPOINTS THEN "json" ELSE "url"

\* the entries url.searchParams holds after addQueryParamsToUrl
addQueryParamsToUrl(url, query) ==
  LET ks == sortKeys(DOMAIN query)
  IN [i \in 1..Len(ks) |-> [name  |-> percentEncode(ks[i]),
                            value |-> percentEncode(String(query[ks[i]]))]]

\* variant: the content-type is written even when the caller supplied one
defaultContentType_Overwrite(headers, value) == SetKey(headers, Header.content_type, Str(value))

\* if (!headers["content-type"]) headers["content-type"] = value
defaultContentType(headers, value) ==
  IF ~Truthy(headers, Header.content_type) THEN SetKey(headers, Header.content_type, Str(value)) ELSE headers

\* constructBodyParams: the value returned (or the error thrown) and the
\* headers object as the function leaves it
constructBodyParams(body, headers, mode, boundary) ==
  IF body.isBuffer
  THEN [error |-> FALSE, body |-> [kind |-> "buffer", text |-> body.bytes, form |-> EmptyObj],
        headers |-> headers]
  ELSE IF mode = "json"
  THEN [error |-> FALSE,
        body |-> [kind |-> "string", text |-> jsonStringify(body.obj), form |-> EmptyObj],
        headers |-> defaultContentType(headers, ContentType.JSON)]
  ELSE IF mode = "url"
  THEN [error |-> FALSE,
        body |-> [kind |-> "string",
                  text |-> IF DOMAIN body.obj # {}
                           THEN join(split(serializeForm(objectEntries(body.obj)), <<"*">>), <<"%","2","A">>)
                           ELSE <<>>,
                  form |-> EmptyObj],
        headers |-> defaultContentType(headers, ContentType.URL)]
  ELSE IF mode = "raw"
  THEN [error |-> TRUE, body |-> [kind |-> "undefined", text |-> <<>>, form |-> EmptyObj],
        headers |-> headers]
  ELSE [error |-> FALSE,
        body |-> [kind |-> "form", text |-> <<>>,
                  form |-> [k \in DOMAIN body.obj |-> Str(String(body.obj[k]))]],
        headers |-> defaultContentType(headers, getFormHeaders(boundary)[Header.content_type].v[1])]

isOAuthSerializable(val) == val.kind # "buf"

mergeQueryAndBodyForOAuth(query, body) ==
  IF body.isBuffer THEN query
  ELSE Spread(query,
              [k \in {p \in DOMAIN body.obj : isOAuthSerializable(body.obj[p])} |->
                 IF body.obj[k].kind = "arr" THEN Str(String(body.obj[k])) ELSE body.obj[k]])

IsParamNameChar(c) == IsUpper(c) \/ IsLower(c) \/ c \in {"_", "-"}

\* first index at or after i of a character that is not a parameter-name character
RECURSIVE NameEnd(_, _)
NameEnd(s, i) == IF i <= Len(s) /\ IsParamNameChar(s[i]) THEN NameEnd(s, i + 1) ELSE i

\* pathname.replace(/:([A-Z_-]+)/gi, ...)
RECURSIVE replaceParams(_, _)
replaceParams(s, parameters) ==
  IF s = <<>> THEN <<>>
  ELSE IF Head(s) = ":" /\ NameEnd(s, 2) > 2
  THEN LET e    == NameEnd(s, 2)
           name == SubSeq(s, 2, e - 1)
       IN (IF name \in DOMAIN parameters /\ parameters[name].kind # "undef"
           THEN String(parameters[name]) ELSE SubSeq(s, 1, e - 1))
          \o replaceParams(SubSeq(s, e, Len(s)), parameters)
  ELSE <<Head(s)>> \o replaceParams(Tail(s), parameters)

applyRequestParametersToUrl(url, parameters) ==
  [url EXCEPT !.pathname = replaceParams(url.pathname, parameters)]

----------------------------------------------------------------------------
(* The request formatter: getFormattedRequestArgs and writeOauthHeaders *)

buildURLFromString(url) ==
  ParseURL(IF ~startsWith(url, <<"h","t","t","p">>) THEN <<"h","t","t","p","s",":","/","/">> \o url ELSE url)

BODY_METHODS == { <<"P","O","S","T">>, <<"P","U","T">>, <<"P","A","T","C","H">> }

\* the request descriptor writeOauthHeaders hands to authorizeOAuth1
oauthRequest(w) ==
  [url     |-> href(w.url),
   method  |-> w.method,
   hasData |-> TRUE,
   data    |-> IF w.bodyInSignature THEN mergeQueryAndBodyForOAuth(w.query, w.body) ELSE w.query]

\* headers = { ...headers, ...toHeader(auth) }, and beside the headers the
\* OAuth parameter set auth they were written from
oauthHeaders(w, auth) ==
  [headers |-> Spread(Spread(EmptyObj, w.headers), (Header.Authorization :> Str(toHeader(auth)))),
   auth    |-> auth]

writeOauthHeaders(w, nonce, timestamp) ==
  oauthHeaders(w, authorizeOAuth1(oauthRequest(w), w.appConsumerTokens, w.accessTokens,
                                  nonce, timestamp))

\* query[param] = value for every entry of url.searchParams, in order
RECURSIVE assignEntries(_, _)
assignEntries(query, entries) ==
  IF entries = <<>> THEN query
  ELSE assignEntries(SetKey(query, Head(entries).name, Str(Head(entries).value)), Tail(entries))

\* the body mode: forceBodyMode ?? autoDetectBodyType(url)
selectBodyType(forceBodyMode, url) ==
  IF forceBodyMode # "undefined" THEN forceBodyMode ELSE autoDetectBodyType(url)

\* variant: the body is signed for a write method in every body mode
bodyInSignature_AnyMode(method, bodyType) == method \in BODY_METHODS

\* bodyInSignature of getFormattedRequestArgs
bodyInSignature(method, bodyType) == method \in BODY_METHODS /\ bodyType = "url"

\* variant: the body is serialized for every method
hasBodyMethod_Always(method) == TRUE

\* whether the formatter serializes a body at all
hasBodyMethod(method) == method \in BODY_METHODS

\* the headers object after the user-agent default is written into it
withUserAgent(headers) ==
  IF ~Truthy(headers, Header.user_agent)
  THEN SetKey(headers, Header.user_agent,
              Str(<<"c","l","o","u","d","f","l","a","r","e","-","w","o","r","k","e","r",".","t","w","i","t","t","e","r","-","a","p","i","-","v","2">>))
  ELSE headers

\* rawBody after `delete rawBody[parameter]` of every undefined parameter
deleteUndefined(body) ==
  IF body.isBuffer THEN body
  ELSE [body EXCEPT !.obj = [k \in {p \in DOMAIN body.obj : body.obj[p].kind # "undef"} |-> body.obj[k]]]

NoBody == [kind |-> "undefined", text |-> <<>>, form |-> EmptyObj]

\* url.searchParams after addQueryParamsToUrl
setSearchParams(url, entries) ==
  [url EXCEPT !.search = IF entries = <<>> THEN <<>> ELSE <<"?">> \o serializeForm(entries)]

\* the return statement of getFormattedRequestArgs.  Beside the returned
\* fields the record carries what the call did on the way: the body mode, the
\* merged query, the request it signed and the OAuth parameter set it got, and the caller's
\* headers and body objects as the call leaves them.  The caller's headers
\* object is the one the formatter writes to until writeOauthHeaders replaces
\* it by a copy.
formattedRequest(a, rawUrl, url, query, w, bodyType, written, built) ==
  [error         |-> built.error,
   returned      |-> ~built.error,
   rawUrl        |-> rawUrl,
   url           |-> setSearchParams(url, addQueryParamsToUrl(url, query)),
   method        |-> w.method,
   headers       |-> built.headers,
   body          |-> built.body,
   bodyType      |-> bodyType,
   query         |-> query,
   authorized    |-> a.enableAuth # "false",
   request       |-> oauthRequest(w),
   oauthInfo     |-> written.auth,
   callerHeaders |-> IF ~a.hasHeaders THEN a.headers
                     ELSE IF a.enableAuth # "false" THEN w.headers ELSE built.headers,
   callerBody    |-> IF a.hasBody THEN w.body ELSE a.body]

\* if (BODY_METHODS.has(method)) body = constructBodyParams(rawBody, headers, bodyType)
formatBody(a, rawUrl, url, query, w, bodyType, written, boundary) ==
  formattedRequest(a, rawUrl, url, query, w, bodyType, written,
    IF hasBodyMethod(w.method)
    THEN constructBodyParams(w.body, written.headers, bodyType, boundary)
    ELSE [error |-> FALSE, body |-> NoBody, headers |-> written.headers])

\* if (enableAuth !== false) headers = writeOauthHeaders({...})
formatAuth(a, rawUrl, url, query, w, bodyType, nonce, timestamp, boundary) ==
  formatBody(a, rawUrl, url, query, w, bodyType,
    IF a.enableAuth # "false" THEN writeOauthHeaders(w, nonce, timestamp)
    ELSE [headers |-> w.headers, auth |-> EmptyObj],
    boundary)

\* the method upper-cased, the user agent written, the undefined body
\* parameters deleted and the body mode chosen
formatMode(a, rawUrl, url, query, method, bodyType, nonce, timestamp, boundary) ==
  formatAuth(a, rawUrl, url, query,
    [headers |-> withUserAgent(a.headers), bodyInSignature |-> bodyInSignature(method, bodyType),
     url |-> url, method |-> method, query |-> query, body |-> deleteUndefined(a.body),
     appConsumerTokens |-> a.appConsumerTokens, accessTokens |-> a.accessTokens],
    bodyType, nonce, timestamp, boundary)

\* the query string of the URL moved into query, and url.search = ""
formatQuery(a, rawUrl, url, nonce, timestamp, boundary) ==
  formatMode(a, rawUrl, [url EXCEPT !.search = <<>>],
    assignEntries(formatQueryToString(a.query), searchParams(url)),
    toUpperCase(a.method), selectBodyType(a.forceBodyMode, [url EXCEPT !.search = <<>>]),
    nonce, timestamp, boundary)

\* rawUrl, and the URL parameters applied
formatUrl(a, url, nonce, timestamp, boundary) ==
  formatQuery(a, origin(url) \o url.pathname,
    IF a.hasParams THEN applyRequestParametersToUrl(url, a.params) ELSE url,
    nonce, timestamp, boundary)

\* getFormattedRequestArgs(a): nonce and timestamp are what the two sources
\* return if they are asked, boundary is the module's FORM_BOUNDARY
getFormattedRequestArgs(a, nonce, timestamp, boundary) ==
  formatUrl(a, buildURLFromString(a.url), nonce, timestamp, boundary)

----------------------------------------------------------------------------
(* Inputs *)

ApiHost == <<"h","t","t","p","s",":","/","/","a","p","i",".","t","w","i","t","t","e","r",".","c","o","m">>
UploadHost == <<"h","t","t","p","s",":","/","/","u","p","l","o","a","d",".","t","w","i","t","t","e","r",".","c","o","m">>
\* request URLs
Url ==
  [ update        |-> ApiHost \o <<"/","1",".","1","/","s","t","a","t","u","s","e","s","/","u","p","d","a","t","e",".","j","s","o","n">>,
    tweets        |-> ApiHost \o <<"/","2","/","t","w","e","e","t","s">>,
    oauth2        |-> ApiHost \o <<"/","2","/","o","a","u","t","h","2","/","t","o","k","e","n">>,
    labs          |-> ApiHost \o <<"/","l","a","b","s","/","2","/","t","w","e","e","t","s">>,
    dm            |-> ApiHost \o <<"/","1",".","1","/","d","i","r","e","c","t","_","m","e","s","s","a","g","e","s","/","e","v","e","n","t","s","/","n","e","w",".","j","s","o","n">>,
    curate        |-> ApiHost \o <<"/","1",".","1","/","c","o","l","l","e","c","t","i","o","n","s","/","e","n","t","r","i","e","s","/","c","u","r","a","t","e",".","j","s","o","n">>,
    request_token |-> ApiHost \o <<"/","o","a","u","t","h","/","r","e","q","u","e","s","t","_","t","o","k","e","n">>,
    user          |-> ApiHost \o <<"/","1",".","1","/","u","s","e","r","s","/",":","i","d",".","j","s","o","n">>,
    search        |-> ApiHost \o <<"/","1",".","1","/","s","e","a","r","c","h",".","j","s","o","n">>,
    upload        |-> UploadHost \o <<"/","1",".","1","/","m","e","d","i","a","/","u","p","l","o","a","d",".","j","s","o","n">>,
    upload_meta   |-> UploadHost \o <<"/","1",".","1","/","m","e","d","i","a","/","m","e","t","a","d","a","t","a","/","c","r","e","a","t","e",".","j","s","o","n">>,
    upload_v2     |-> UploadHost \o <<"/","2","/","m","e","d","i","a">>,
    noscheme      |-> <<"a","p","i",".","t","w","i","t","t","e","r",".","c","o","m","/","1",".","1","/","s","t","a","t","u","s","e","s","/","u","p","d","a","t","e",".","j","s","o","n">>,
    userinfo      |-> <<"h","t","t","p","s",":","/","/","u",":","p","@","a","p","i",".","t","w","i","t","t","e","r",".","c","o","m","/","2","/","o","a","u","t","h","2","/","t","o","k","e","n">> ]

\* parameter names, values and credentials
Text ==
  [ status     |-> <<"s","t","a","t","u","s">>,
    media      |-> <<"m","e","d","i","a">>,
    q          |-> <<"q">>,
    id         |-> <<"i","d">>,
    lang       |-> <<"l","a","n","g">>,
    hello      |-> <<"h","e","l","l","o">>,
    a_b        |-> <<"a"," ","b","*">>,
    en         |-> <<"e","n">>,
    n20        |-> <<"2","0">>,
    text_plain |-> <<"t","e","x","t","/","p","l","a","i","n">>,
    my_agent   |-> <<"m","y","-","a","g","e","n","t">>,
    ck         |-> <<"c","k">>,
    cs         |-> <<"c","s">>,
    tk         |-> <<"t","k">>,
    ts         |-> <<"t","&","s">>,
    top        |-> <<"t","o","p">> ]
\* HTTP methods as callers write them
Method ==
  [ POST   |-> <<"P","O","S","T">>,
    post   |-> <<"p","o","s","t">>,
    GET    |-> <<"G","E","T">>,
    PUT    |-> <<"P","U","T">>,
    Patch  |-> <<"P","a","t","c","h">>,
    DELETE |-> <<"D","E","L","E","T","E">> ]

\* bounds of the model
MaxParams == 1   \* body parameters a request carries at most
MaxRepeat == 3   \* occurrences of a repeated query key at most
MaxCalls  == 3   \* signing calls in a row

BodyKeys ==
  LET list == <<Text.status, Text.q, Key.nonce>>
  IN  {list[i] : i \in 1..(IF MaxParams < 3 THEN MaxParams ELSE 3)}
BodyValues  == {Str(Text.hello), Str(Text.a_b), Buf(<<"x">>)}

Objects(keys, values) == UNION {[S -> values] : S \in SUBSET keys}

ObjBody(obj) == [isBuffer |-> FALSE, bytes |-> <<>>, obj |-> obj]
BufBody(b)   == [isBuffer |-> TRUE, bytes |-> b, obj |-> EmptyObj]

Bodies == {ObjBody(o) : o \in Objects(BodyKeys, BodyValues)} \cup {BufBody(<<"x">>), BufBody(<<"y","*">>)}

\* forceBodyMode: a TBodyMode, or undefined
ForceMode == {"json", "url", "form-data", "raw", "undefined"}

ConsumerTokens == [key |-> Text.ck, secret |-> Text.cs]
AccessTokens   == [key |-> Text.tk, secret |-> Text.ts]
NoTokens       == [x \in {} |-> <<>>]

BaseArgs ==
  [op |-> "format", url |-> Url.update, method |-> Method.POST,
   query |-> EmptyObj,
   hasBody |-> TRUE, body |-> ObjBody(Text.status :> Str(Text.hello)),
   hasHeaders |-> FALSE, headers |-> EmptyObj,
   forceBodyMode |-> "undefined", enableAuth |-> "undefined",
   hasParams |-> FALSE, params |-> EmptyObj,
   appConsumerTokens |-> ConsumerTokens, accessTokens |-> AccessTokens,
   request |-> [url |-> <<>>, method |-> <<>>, hasData |-> FALSE, data |-> EmptyObj],
   oauthInfo |-> EmptyObj]

\* requests whose body decides what is signed
SignatureArgs ==
  {[BaseArgs EXCEPT !.url = uf[1], !.forceBodyMode = uf[2], !.method = m, !.body = b,
                    !.query = (Text.q :> Str(Text.en))] :
     uf \in {<<Url.update, f>> : f \in ForceMode}
              \cup {<<Url.tweets, "undefined">>, <<Url.upload, "undefined">>},
     m \in {Method.post, Method.GET, Method.PUT}, b \in Bodies}

\* URLs of every branch of the body-mode detection
DetectArgs ==
  {[BaseArgs EXCEPT !.url = u, !.forceBodyMode = f, !.accessTokens = t] :
     u \in {Url.update, Url.tweets, Url.oauth2, Url.labs, Url.dm, Url.curate, Url.request_token,
            Url.upload, Url.upload_meta, Url.upload_v2, Url.noscheme, Url.userinfo, Url.search},
     f \in ForceMode, t \in {AccessTokens, NoTokens}}

HeaderChoices ==
  { [has |-> FALSE, obj |-> EmptyObj],
    [has |-> TRUE,  obj |-> EmptyObj],
    [has |-> TRUE,  obj |-> (Header.content_type :> Str(Text.text_plain))],
    [has |-> TRUE,  obj |-> (Header.content_type :> Str(<<>>))],
    [has |-> TRUE,  obj |-> (Header.user_agent :> Str(Text.my_agent))],
    [has |-> TRUE,  obj |-> (Header.content_type :> Str(Text.text_plain)) @@ (Header.user_agent :> Str(Text.my_agent))] }

BodyChoices ==
  { [has |-> FALSE, body |-> ObjBody(EmptyObj)],
    [has |-> TRUE,  body |-> ObjBody(EmptyObj)],
    [has |-> TRUE,  body |-> ObjBody(Text.status :> Str(Text.hello))],
    [has |-> TRUE,  body |-> ObjBody((Text.status :> Str(Text.a_b)) @@ (Text.media :> Undef))],
    [has |-> TRUE,  body |-> ObjBody(Text.media :> Arr(<<Text.hello, Text.a_b>>))],
    [has |-> TRUE,  body |-> BufBody(<<"x","y">>)] }

\* requests that vary the caller's headers, the method, the mode and the auth switch
HeaderArgs ==
  {[BaseArgs EXCEPT !.url = u, !.method = m, !.forceBodyMode = f, !.enableAuth = e,
                    !.hasHeaders = h.has, !.headers = h.obj, !.hasBody = b.has, !.body = b.body] :
     u \in {Url.update}, m \in {Method.Patch, Method.GET}, f \in ForceMode,
     e \in {"undefined", "true", "false"}, h \in HeaderChoices, b \in BodyChoices}

\* URLs whose query string repeats the key q, with and without a fragment
ValueSeqs == UNION {[1..n -> {<<>>, <<"a">>, <<"b">>}] : n \in 0..MaxRepeat}

QueryString(vals) == join([i \in 1..Len(vals) |-> Text.q \o <<"=">> \o vals[i]], <<"&">>)

MakeUrl(base, vals, frag) ==
  base \o (IF vals = <<>> THEN <<>> ELSE <<"?">> \o QueryString(vals)) \o frag

QueryUrls == {MakeUrl(Url.search, vals, frag) : vals \in ValueSeqs, frag \in {<<>>, <<"#">> \o Text.top}}

QueryArgs ==
  {[BaseArgs EXCEPT !.url = u, !.method = m, !.query = q] :
     u \in QueryUrls, m \in {Method.GET, Method.POST},
     q \in {EmptyObj, (Text.lang :> Str(Text.en)) @@ (Text.q :> Arr(<<Text.hello, Text.a_b>>)) @@ (Text.id :> Undef)}}

\* a URL with a path parameter
ParamArgs ==
  {[BaseArgs EXCEPT !.url = Url.user, !.method = Method.GET, !.hasParams = h.has, !.params = h.obj] :
     h \in { [has |-> FALSE, obj |-> EmptyObj], [has |-> TRUE, obj |-> EmptyObj],
             [has |-> TRUE, obj |-> (Text.id :> Str(Text.n20))] }}

FormatArgs == SignatureArgs \cup DetectArgs \cup HeaderArgs \cup QueryArgs \cup ParamArgs

\* what the nonce source draws: NONCE_LEN times the same index
RandomDraws == {[i \in 1..NONCE_LEN |-> d] : d \in {0, 61}}

\* what generateFormBoundary draws when the module is loaded
BoundaryDraws == {[i \in 1..24 |-> d] : d \in {0, 9}}

Entropy0(rand) == [rand |-> rand, nonceCalls |-> 0, timestampCalls |-> 0]

CallerOf(a) == [headers |-> a.headers, body |-> a.body, query |-> a.query, request |-> a.request]

----------------------------------------------------------------------------
(* The formatter, called once and then once more with another body *)

InitFormat ==
  /\ \E d \in BoundaryDraws :
       /\ FORM_BOUNDARY = generateFormBoundary(d)
       /\ args \in (IF d[1] = 0 THEN FormatArgs ELSE HeaderArgs)
  /\ pc = "start"
  /\ caller = CallerOf(args)
  /\ result = None
  /\ prev = None
  /\ entropy = Entropy0(CHOOSE r \in RandomDraws : r[1] = 0)
  /\ clock = 1999
  /\ cookies = <<>>
  /\ history = <<>>

\* one call of getFormattedRequestArgs on the arguments a
FormatCall(a) ==
  \E r \in {getFormattedRequestArgs(a, getNonce(entropy.rand), getTimestampInSec(clock), FORM_BOUNDARY)} :
     /\ result' = r
     /\ caller' = [headers |-> r.callerHeaders, body |-> r.callerBody,
                   query |-> a.query, request |-> a.request]
     /\ entropy' = [entropy EXCEPT !.nonceCalls = @ + (IF r.authorized THEN 1 ELSE 0),
                                   !.timestampCalls = @ + (IF r.authorized THEN 1 ELSE 0)]

Format ==
  /\ pc = "start"
  /\ args.op = "format"
  /\ FormatCall(args)
  /\ prev' = result
  /\ pc' = "called"
  /\ UNCHANGED <<cookies, history, FORM_BOUNDARY, args, clock>>

\* the same call again, the body alone replaced
FormatAgain ==
  /\ pc = "called"
  /\ args \in SignatureArgs
  /\ \E b \in Bodies :
       /\ args' = [args EXCEPT !.body = b]
       /\ FormatCall(args')
  /\ prev' = result
  /\ pc' = "again"
  /\ UNCHANGED <<cookies, history, FORM_BOUNDARY, clock>>

NextFormat == Format \/ FormatAgain

SpecFormat == InitFormat /\ [][NextFormat]_vars

----------------------------------------------------------------------------
(* authorizeOAuth1 called directly, several times in a row *)

MaxClock == 3999

\* authorizeOAuth1 with what it did on the way: the request descriptor as the
\* call leaves it, the merged parameters it signed and the base string
signingTrace(request, appConsumerTokens, accessTokens, nonce, timestamp) ==
  LET req      == requestAfterAuthorize(request)
      unsigned == unsignedOAuthInfo(appConsumerTokens, accessTokens, nonce, timestamp)
  IN [oauthInfo  |-> authorizeOAuth1(request, appConsumerTokens, accessTokens, nonce, timestamp),
      request    |-> req,
      signed     |-> mergedParameters(req, unsigned),
      baseString |-> getBaseString(req, unsigned),
      nonce      |-> nonce,
      timestamp  |-> timestamp]

Request(url, method, data) == [url |-> url, method |-> method, hasData |-> data.has, data |-> data.obj]

DataChoices ==
  { [has |-> FALSE, obj |-> EmptyObj],
    [has |-> TRUE,  obj |-> EmptyObj],
    [has |-> TRUE,  obj |-> (Text.status :> Str(Text.a_b))],
    [has |-> TRUE,  obj |-> (Text.q :> Str(Text.hello))],
    [has |-> TRUE,  obj |-> (Text.q :> Arr(<<Text.hello, Text.a_b>>)) @@ (Text.lang :> Str(Text.en))],
    [has |-> TRUE,  obj |-> (Key.nonce :> Str(Text.hello))],
    [has |-> TRUE,  obj |-> (Key.timestamp :> Str(Text.n20)) @@ (Key.token :> Str(Text.hello))] }

TokenChoices == {AccessTokens, NoTokens, [key |-> Text.tk]}

SignArgs ==
  {[BaseArgs EXCEPT !.op = "authorize", !.request = Request(u, m, d), !.accessTokens = t] :
     u \in QueryUrls, m \in {Method.post},
     d \in {x \in DataChoices : ~x.has \/ DOMAIN x.obj = {Text.q}}, t \in {AccessTokens}}
  \cup
  {[BaseArgs EXCEPT !.op = "authorize", !.request = Request(u, m, d), !.accessTokens = t] :
     u \in {Url.update, Url.update \o <<"#">> \o Text.top}, m \in {Method.post, Method.GET}, d \in DataChoices,
     t \in TokenChoices}

InitSign ==
  /\ FORM_BOUNDARY = generateFormBoundary(CHOOSE d \in BoundaryDraws : d[1] = 0)
  /\ pc = "start"
  /\ args \in SignArgs
  /\ caller = CallerOf(args)
  /\ result = None
  /\ prev = None
  /\ entropy \in {Entropy0(r) : r \in RandomDraws}
  /\ clock = 1999
  /\ cookies = <<>>
  /\ history = <<>>

\* one call of authorizeOAuth1: getNonce() and getTimestampInSec() are each
\* evaluated once, in the initializer of oauthInfo
Authorize ==
  /\ pc \in {"start", "called"}
  /\ args.op = "authorize"
  /\ entropy.nonceCalls < MaxCalls
  /\ \E r \in {signingTrace(caller.request, args.appConsumerTokens, args.accessTokens,
                            getNonce(entropy.rand), getTimestampInSec(clock))} :
        /\ result' = r
        /\ caller' = [caller EXCEPT !.request = r.request]
  /\ prev' = result
  /\ entropy' = [entropy EXCEPT !.nonceCalls = @ + 1, !.timestampCalls = @ + 1]
  /\ pc' = "called"
  /\ UNCHANGED <<cookies, history, FORM_BOUNDARY, args, clock>>

\* time passes and the random source moves on
Tick ==
  /\ pc = "called"
  /\ clock + 1000 <= MaxClock
  /\ clock' = clock + 1000
  /\ \E r \in RandomDraws : entropy' = [entropy EXCEPT !.rand = r]
  /\ UNCHANGED <<cookies, history, FORM_BOUNDARY, pc, args, caller, result, prev>>

NextSign == Authorize \/ Tick

SpecSign == InitSign /\ [][NextSign]_vars

----------------------------------------------------------------------------
(* getParameterString on a merged parameter map *)

MaxKeys == 3   \* keys of a parameter map at most

ParamKeys ==
  LET list == <<<<"a">>, <<"b">>, <<"c"," ">>, <<"d">>>>
  IN  {list[i] : i \in 1..(IF MaxKeys < 4 THEN MaxKeys ELSE 4)}

ParamArgsSet ==
  {[BaseArgs EXCEPT !.op = "parameterString",
                    !.request = Request(Url.update, Method.POST, [has |-> TRUE, obj |-> o])] :
     o \in Objects(ParamKeys,
                   {Str(<<"x">>), Str(Text.a_b), Arr(<<>>), Arr(<< <<"1">> >>),
                    Arr(<< <<"2">>, <<"1">> >>), Arr(<< Text.a_b, <<"a">>, <<"a">> >>)})}

InitParams ==
  /\ FORM_BOUNDARY = generateFormBoundary(CHOOSE d \in BoundaryDraws : d[1] = 0)
  /\ pc = "start"
  /\ args \in ParamArgsSet
  /\ caller = CallerOf(args)
  /\ result = None
  /\ prev = None
  /\ entropy = Entropy0(CHOOSE r \in RandomDraws : r[1] = 0)
  /\ clock = 1999
  /\ cookies = <<>>
  /\ history = <<>>

\* getParameterString(request, oauthInfo) with an empty oauthInfo: the merged
\* parameter map is request.data
ParameterString ==
  /\ pc = "start"
  /\ args.op = "parameterString"
  /\ result' = [merged |-> mergedParameters(args.request, EmptyObj),
                parameterString |-> getParameterString(args.request, EmptyObj)]
  /\ pc' = "called"
  /\ UNCHANGED <<cookies, history, FORM_BOUNDARY, args, caller, prev, entropy, clock>>

NextParams == ParameterString

SpecParams == InitParams /\ [][NextParams]_vars

----------------------------------------------------------------------------
(* toHeader on an OAuth parameter set *)

HeaderKeys ==
  LET list == <<Key.consumer_key, Key.token, Text.status, <<"o","a","u","t","h">>,
                <<"x","_">> \o Key.prefix, Key.nonce>>
  IN  {list[i] : i \in 1..(IF MaxKeys + 2 < 6 THEN MaxKeys + 2 ELSE 6)}

HeaderArgsSet ==
  {[BaseArgs EXCEPT !.op = "toHeader", !.oauthInfo = o] : o \in Objects(HeaderKeys, {Str(Text.tk), Str(Text.a_b)})}
  \cup
  {[BaseArgs EXCEPT !.op = "toHeader",
                    !.oauthInfo = authorizeOAuth1(Request(Url.update, Method.POST, d), ConsumerTokens, t,
                                                  getNonce(r), 1)] :
     d \in DataChoices, t \in TokenChoices, r \in RandomDraws}

InitHeader ==
  /\ FORM_BOUNDARY = generateFormBoundary(CHOOSE d \in BoundaryDraws : d[1] = 0)
  /\ pc = "start"
  /\ args \in HeaderArgsSet
  /\ caller = CallerOf(args)
  /\ result = None
  /\ prev = None
  /\ entropy = Entropy0(CHOOSE r \in RandomDraws : r[1] = 0)
  /\ clock = 1999
  /\ cookies = <<>>
  /\ history = <<>>

ToHeader ==
  /\ pc = "start"
  /\ args.op = "toHeader"
  /\ result' = [Authorization |-> toHeader(args.oauthInfo)]
  /\ pc' = "called"
  /\ UNCHANGED <<cookies, history, FORM_BOUNDARY, args, caller, prev, entropy, clock>>

NextHeader == ToHeader

SpecHeader == InitHeader /\ [][NextHeader]_vars

----------------------------------------------------------------------------
(* Properties *)

Called == pc # "start"

Signature(r) == r.oauthInfo[Key.signature].v[1]

\* the base string the call r signed
BaseStringOf(r) ==
  getBaseString(r.request,
                unsignedOAuthInfo(args.appConsumerTokens, args.accessTokens,
                                  getNonce(entropy.rand), getTimestampInSec(clock)))

\* the parameters of a body: a byte buffer has none
BodyParams(body) == IF body.isBuffer THEN EmptyObj ELSE body.obj

\* the parameters of a body that are not byte buffers, as strings
SerializableParams(body) ==
  LET p == BodyParams(body)
  IN [k \in {x \in DOMAIN p : p[x].kind # "buf"} |-> String(p[k])]

WriteMethod(r) == r.method \in {Method.POST, Method.PUT, toUpperCase(Method.Patch)}

PrescribedBodyType(url) ==
  IF startsWith(url.pathname, <<"/","2","/">>) \/ startsWith(url.pathname, <<"/","l","a","b","s","/","2","/">>)
  THEN (IF startsWith(url.pathname, <<"/","2","/","o","a","u","t","h","2">>) THEN "url" ELSE "json")
  ELSE IF hostname(url) = <<"u","p","l","o","a","d",".","t","w","i","t","t","e","r",".","c","o","m">>
  THEN (IF url.pathname = <<"/","1",".","1","/","m","e","d","i","a","/","u","p","l","o","a","d",".","j","s","o","n">>
        THEN "form-data" ELSE "json")
  ELSE IF \E e \in JSON_1_1_ENDPOINTS :
            \E i \in 1..Len(url.pathname) :
               /\ indexOf(url.pathname, <<"/","1",".","1","/">>) = i
               /\ SubSeq(url.pathname, i + 5, Len(url.pathname)) = e
  THEN "json" ELSE "url"

\* C2: with no forced mode the body mode is url for the OAuth2-token sub-path
\* of the versioned JSON API root and json for the rest of that root,
\* form-data for the upload command on the media-upload host and json for the
\* rest of that host, json for the allow-listed 1.1 endpoints and url
\* otherwise; a forced mode is used unchanged.
C2_BodyModeSelection ==
  (Called /\ args.op = "format") =>
    result.bodyType = IF args.forceBodyMode # "undefined" THEN args.forceBodyMode
                      ELSE PrescribedBodyType(result.url)

\* the key=value pairs of a parameter map, percent-encoded, by encoded key,
\* a sequence-valued key once per element in sorted element order
PairsOfKey(m, k) ==
  IF m[k].kind = "arr"
  THEN LET vs == sortStrings([i \in 1..Len(m[k].v) |-> percentEncode(m[k].v[i])])
       IN [i \in 1..Len(vs) |-> percentEncode(k) \o <<"=">> \o vs[i]]
  ELSE <<percentEncode(k) \o <<"=">> \o percentEncode(m[k].v[1])>>

RECURSIVE PairsOfKeys(_, _)
PairsOfKeys(m, eks) ==
  IF eks = <<>> THEN <<>>
  ELSE PairsOfKey(m, CHOOSE k \in DOMAIN m : percentEncode(k) = Head(eks)) \o PairsOfKeys(m, Tail(eks))

ExpectedPairs(m) == PairsOfKeys(m, sortKeys({percentEncode(k) : k \in DOMAIN m}))

\* C3: getParameterString returns the percent-encoded key=value pairs of the
\* merged parameter map ordered by encoded key, a sequence-valued key once per
\* element in sorted order, with exactly one "&" between consecutive pairs and
\* none at either end.
C3_ParameterString ==
  (Called /\ args.op = "parameterString") =>
    result.parameterString = join(ExpectedPairs(result.merged), <<"&">>)

\* {a: ["2","1"], b: "x"} serializes to a=1&a=2&b=x
C3_Witness ==
  /\ Called /\ args.op = "parameterString"
  /\ result.merged = ((<<"a">> :> Arr(<< <<"2">>, <<"1">> >>)) @@ (<<"b">> :> Str(<<"x">>)))
  /\ result.parameterString = <<"a","=","1","&","a","=","2","&","b","=","x">>

\* C4: when the query string of the URL repeats the key q with the values
\* v1..vn, n >= 2, the signed parameter set holds q as a sequence of all n
\* values.
C4_RepeatedKeysKept ==
  (Called /\ args.op = "authorize") =>
    \A vals \in ValueSeqs :
       (Len(vals) >= 2 /\ args.request.url = MakeUrl(Url.search, vals, <<>>)) =>
          /\ result.signed[Text.q].kind = "arr"
          /\ sortStrings(result.signed[Text.q].v) = sortStrings(vals)

OAuthKeys(oauthInfo) == {k \in DOMAIN oauthInfo : startsWith(k, Key.prefix)}

HeaderEntries(oauthInfo) ==
  LET ks == sortKeys(OAuthKeys(oauthInfo))
  IN [i \in 1..Len(ks) |->
        percentEncode(ks[i]) \o <<"=", "\"">> \o percentEncode(oauthInfo[ks[i]].v[1]) \o <<"\"">>]

\* C5 (as stated): the Authorization value is "OAuth " followed by the oauth_
\* entries in ascending key order, each key="value" percent-encoded,
\* separated by ", ".
C5_CommaSpaceSeparated ==
  (Called /\ args.op = "toHeader") =>
    result.Authorization = <<"O","A","u","t","h"," ">> \o join(HeaderEntries(args.oauthInfo), <<",", " ">>)

\* C5 (amended): the Authorization value is "OAuth " followed by the oauth_
\* entries (and only those) in ascending key order, each key="value"
\* percent-encoded, separated by "," with no space and with nothing after the
\* last entry; with no oauth_ entry at all it is "OAuth" without the space.
C5_CommaSeparated ==
  (Called /\ args.op = "toHeader") =>
    result.Authorization =
      IF OAuthKeys(args.oauthInfo) = {} THEN <<"O","A","u","t","h">>
      ELSE <<"O","A","u","t","h"," ">> \o join(HeaderEntries(args.oauthInfo), <<",">>)

\* a header built from two oauth_ entries and one entry that is left out
C5_Witness ==
  /\ Called /\ args.op = "toHeader"
  /\ DOMAIN args.oauthInfo = {Key.consumer_key, Key.token, Text.status}
  /\ args.oauthInfo[Key.token] = Str(Text.a_b)
  /\ result.Authorization =
       <<"O","A","u","t","h"," ">> \o Key.consumer_key \o <<"=","\"","t","k","\"",",">>
         \o Key.token \o <<"=","\"","a","%","2","0","b","%","2","A","\"">>


\* scheme, host and path of a URL: what precedes the first "?" or "#"
SchemeHostPath(url) == SubSeq(url, 1, FirstOf(url, {"?", "#"}, 1) - 1)

\* C6: the signed base string is UPPERCASE(method) & percentEncode(baseURL) &
\* percentEncode(parameterString), baseURL being the request URL reduced to
\* scheme, host and path, without query string and without fragment.
C6_BaseStringUrl ==
  (Called /\ args.op = "authorize") =>
    result.baseString =
      toUpperCase(args.request.method) \o <<"&">>
        \o percentEncode(SchemeHostPath(args.request.url)) \o <<"&">>
        \o percentEncode(getParameterString(result.request,
             unsignedOAuthInfo(args.appConsumerTokens, args.accessTokens, result.nonce, result.timestamp)))

RawCall == Called /\ args.op = "format" /\ args.forceBodyMode = "raw"

RawOutcome ==
  IF args.body.isBuffer
  THEN result.returned /\ result.body.kind = "buffer" /\ result.body.text = args.body.bytes
  ELSE result.error /\ ~result.returned

\* C7 (as stated): with forced mode raw a body that is not a byte buffer makes
\* the call fail, whatever the method and the auth switch, and a byte buffer
\* is returned as the body unmodified.
C7_RawAnyMethod ==
  (RawCall /\ args.hasBody /\ (args.body.isBuffer \/ DOMAIN args.body.obj # {})) => RawOutcome

\* C7 (amended): with forced mode raw and the method POST, PUT or PATCH, a body
\* that is not a byte buffer makes the call fail with an error and return
\* nothing, whether or not authorization is enabled, and a byte buffer is
\* returned as the body unmodified; with any other method the body is never
\* looked at: the call returns, without a body.
C7_RawWriteMethods ==
  RawCall => IF WriteMethod(result) THEN RawOutcome
             ELSE result.returned /\ result.body = NoBody

\* a raw POST of a parameter map, authorization off, fails
C7_Witness ==
  /\ RawCall /\ WriteMethod(result)
  /\ args.enableAuth = "false"
  /\ ~args.body.isBuffer /\ DOMAIN args.body.obj # {}
  /\ result.error /\ ~result.returned

\* C8: after a call the caller's headers map, body map, query map and request
\* descriptor hold exactly the entries they held before the call.
C8_NoSideEffects == Called => caller = CallerOf(args)

ContentTypeOf(mode) ==
  IF mode = "json" THEN ContentType.JSON
  ELSE IF mode = "url" THEN ContentType.URL
  ELSE ContentType.FORM \o FORM_BOUNDARY

WriteCall == Called /\ args.op = "format" /\ WriteMethod(result) /\ result.returned

\* C9 (as stated): for a write method and every body mode, a caller-supplied
\* content-type is in the output unchanged, and with none supplied the output
\* content-type is the one of the mode (json, url, form-data).
C9_ContentTypeEveryBody ==
  WriteCall =>
    IF Header.content_type \in DOMAIN args.headers
    THEN /\ Header.content_type \in DOMAIN result.headers
         /\ result.headers[Header.content_type] = args.headers[Header.content_type]
    ELSE result.bodyType \in {"json", "url", "form-data"} =>
           /\ Header.content_type \in DOMAIN result.headers
           /\ result.headers[Header.content_type] = Str(ContentTypeOf(result.bodyType))

\* C9 (amended): for a write method and a body that is not a byte buffer, in
\* mode json, url or form-data, a non-empty caller-supplied content-type is in
\* the output unchanged, and with none (or an empty one) supplied the output
\* content-type is the one of the mode; with a byte-buffer body the formatter
\* sets no content-type in any mode and the caller's entry, if any, passes
\* through.
C9_ContentTypeDefault ==
  WriteCall =>
    IF args.body.isBuffer
    THEN /\ (Header.content_type \in DOMAIN result.headers) <=> (Header.content_type \in DOMAIN args.headers)
         /\ Header.content_type \in DOMAIN args.headers =>
              result.headers[Header.content_type] = args.headers[Header.content_type]
    ELSE /\ result.bodyType \in {"json", "url", "form-data"}
         /\ Header.content_type \in DOMAIN result.headers
         /\ result.headers[Header.content_type] =
              IF Truthy(args.headers, Header.content_type) THEN args.headers[Header.content_type]
              ELSE Str(ContentTypeOf(result.bodyType))

\* a form-data POST with no content-type supplied gets the multipart type
C9_Witness ==
  /\ WriteCall /\ ~args.body.isBuffer
  /\ result.bodyType = "form-data"
  /\ Header.content_type \notin DOMAIN args.headers
  /\ result.headers[Header.content_type] = Str(ContentType.FORM \o FORM_BOUNDARY)

\* C10: each call of authorizeOAuth1 asks the nonce source once and the
\* timestamp source once and uses the two values it got, not earlier ones,
\* both in the signed parameters and in the returned OAuth parameter set.
C10_FreshNonceSigned ==
  [][Authorize =>
       /\ entropy'.nonceCalls = entropy.nonceCalls + 1
       /\ entropy'.timestampCalls = entropy.timestampCalls + 1
       /\ result'.nonce = getNonce(entropy.rand)
       /\ result'.timestamp = getTimestampInSec(clock)
       /\ result'.oauthInfo[Key.nonce] = Str(result'.nonce)
       /\ result'.oauthInfo[Key.timestamp] = Str(ToDecimal(result'.timestamp))
       /\ result'.signed[Key.nonce] = Str(result'.nonce)
       /\ result'.signed[Key.timestamp] = Str(ToDecimal(result'.timestamp))]_vars


\* the boundary of a multipart content-type among the headers of a formatted
\* request, None when the content-type is not the multipart one
BoundaryOf(r) ==
  IF /\ Header.content_type \in DOMAIN r.headers
     /\ startsWith(r.headers[Header.content_type].v[1], ContentType.FORM)
  THEN [kind |-> "boundary",
        v    |-> SubSeq(r.headers[Header.content_type].v[1], Len(ContentType.FORM) + 1,
                        Len(r.headers[Header.content_type].v[1]))]
  ELSE None

\* C11: the multipart boundary is generated anew for every formatting call
\* that needs one: two calls that both produce a multipart content-type never
\* carry the same boundary value.
C11_FreshBoundary ==
  (pc = "again" /\ BoundaryOf(prev) # None /\ BoundaryOf(result) # None)
    => BoundaryOf(prev) # BoundaryOf(result)


\* what a server reads from the query string of a URL when it decodes it once:
\* the set of its (name, value) pairs
Transmitted(url) == {searchParams(url)[i] : i \in 1..Len(searchParams(url))}

\* the merged query parameters of a call as (name, value) pairs; they enter the
\* signed parameter string as they are
MergedQuery(r) == {[name |-> k, value |-> String(r.query[k])] : k \in DOMAIN r.query}

\* C12: for a request formatted with authorization enabled, the query
\* parameters a server obtains by URL-decoding the final URL's query string
\* once are exactly the merged query parameters that were signed.
C12_TransmittedEqualsSigned ==
  (Called /\ args.op = "format" /\ result.returned /\ result.authorized)
    => /\ \A k \in DOMAIN result.query : result.request.data[k] = result.query[k]
       /\ Transmitted(result.url) = MergedQuery(result)


\* C13: whatever keys the request data and the URL query string hold, every
\* oauth_ parameter authorizeOAuth1 returns for the header, oauth_signature
\* apart, is in the signed parameters with the same value.
C13_ProtocolParametersSigned ==
  (Called /\ args.op = "authorize") =>
    \A k \in OAuthKeys(result.oauthInfo) \ {Key.signature} :
       /\ k \in DOMAIN result.signed
       /\ result.signed[k] = result.oauthInfo[k]


----------------------------------------------------------------------------
(* index.ts: the HTTP routes, and the cookie jar of one client.  The jar    *)
(* changes only by the Set-Cookie headers of the responses; every request   *)
(* carries the whole jar.  A handler runs from the request to the response. *)

MaxRequests == 5   \* requests one client sends

COOKIE_KEYS ==
  [OAUTH_SECRET |-> "oauth_secret", ACCESS_TOKEN |-> "access_token", ACCESS_SECRET |-> "access_secret"]

\* what fetch gives the two token calls: the token pair of Twitter's answer,
\* an answer without the fields (an error body), or a rejection
TokenAnswers ==
  { [thrown |-> FALSE, oauth_token |-> Str(Text.tk), oauth_token_secret |-> Str(Text.ts)],
    [thrown |-> FALSE, oauth_token |-> Undef,        oauth_token_secret |-> Undef],
    [thrown |-> TRUE,  oauth_token |-> Undef,        oauth_token_secret |-> Undef] }

\* the query strings of the requests to the callback route
Queries ==
  { EmptyObj,
    ("oauth_token" :> Str(<<>>)) @@ ("oauth_verifier" :> Str(Text.n20)),
    ("oauth_token" :> Str(Text.hello)) @@ ("oauth_verifier" :> Str(Text.n20)) }

\* setSignedCookie: the jar after the Set-Cookie header.  What the platform
\* stores for a value that is undefined is not decided here: either the text
\* "undefined" (kept) or a cookie whose signature does not verify, which
\* getSignedCookie reads as false (held in the jar as Undef)
setSignedCookie(jar, name, value, kept) ==
  SetKey(jar, name, IF value.kind = "undef" /\ kept THEN Str(String(value)) ELSE value)

\* deleteCookie: the jar after the Set-Cookie header with Max-Age=0; the
\* options are those the cookie was set with
deleteCookie(jar, name) == DeleteKey(jar, name)

\* a response: the status, the jar after it, the cookies its headers name,
\* and whether the handler called getMe
Response(status, jar, setCookie, getMe) ==
  [status |-> status, cookies |-> jar, setCookie |-> setCookie, getMe |-> getMe]

\* app.get("/api/signin")
signin(jar, answer, kept) ==
  IF answer.thrown THEN Response(500, jar, {}, FALSE)
  ELSE Response(302, setSignedCookie(jar, COOKIE_KEYS.OAUTH_SECRET, answer.oauth_token_secret, kept),
                {COOKIE_KEYS.OAUTH_SECRET}, FALSE)

\* variant: the sign-in cookie is deleted, the access cookies are kept
signout_WrongCookie(jar) ==
  Response(200, deleteCookie(jar, COOKIE_KEYS.OAUTH_SECRET), {COOKIE_KEYS.OAUTH_SECRET}, FALSE)

\* app.get("/api/signout")
signout(jar) ==
  Response(200, deleteCookie(deleteCookie(jar, COOKIE_KEYS.ACCESS_TOKEN), COOKIE_KEYS.ACCESS_SECRET),
           {COOKIE_KEYS.ACCESS_TOKEN, COOKIE_KEYS.ACCESS_SECRET}, FALSE)

\* app.get("/api/auth/callback/twitter")
callback(jar, query, answer, kept) ==
  IF ~Truthy(query, "oauth_token") \/ ~Truthy(query, "oauth_verifier")
  THEN Response(400, jar, {}, FALSE)
  ELSE IF ~Truthy(jar, COOKIE_KEYS.OAUTH_SECRET)
  THEN Response(400, jar, {}, FALSE)
  ELSE IF answer.thrown
  THEN Response(500, jar, {}, FALSE)
  ELSE Response(200,
         setSignedCookie(setSignedCookie(jar, COOKIE_KEYS.ACCESS_TOKEN, answer.oauth_token, kept),
                         COOKIE_KEYS.ACCESS_SECRET, answer.oauth_token_secret, kept),
         {COOKIE_KEYS.ACCESS_TOKEN, COOKIE_KEYS.ACCESS_SECRET}, FALSE)

\* app.get("/api/me")
me(jar) ==
  IF ~Truthy(jar, COOKIE_KEYS.ACCESS_TOKEN) \/ ~Truthy(jar, COOKIE_KEYS.ACCESS_SECRET)
  THEN Response(400, jar, {}, FALSE)
  ELSE Response(200, jar, {}, TRUE)

\* the client sends a request with its jar and takes the response's cookies
Exchange(route, query, response) ==
  /\ Len(history) < MaxRequests
  /\ history' = Append(history, [route |-> route, query |-> query, sent |-> cookies,
                                 status |-> response.status, setCookie |-> response.setCookie,
                                 getMe |-> response.getMe])
  /\ cookies' = response.cookies
  /\ UNCHANGED <<FORM_BOUNDARY, pc, args, caller, result, prev, entropy, clock>>

InitRoutes ==
  /\ FORM_BOUNDARY = generateFormBoundary(CHOOSE d \in BoundaryDraws : d[1] = 0)
  /\ pc = "start"
  /\ args = None
  /\ caller = None
  /\ result = None
  /\ prev = None
  /\ entropy = Entropy0(CHOOSE r \in RandomDraws : r[1] = 0)
  /\ clock = 1999
  /\ cookies = EmptyObj
  /\ history = <<>>

Signin ==
  \E answer \in TokenAnswers, kept \in BOOLEAN :
     Exchange("signin", EmptyObj, signin(cookies, answer, kept))

Signout == Exchange("signout", EmptyObj, signout(cookies))

Callback ==
  \E query \in Queries, answer \in TokenAnswers, kept \in BOOLEAN :
     Exchange("callback", query, callback(cookies, query, answer, kept))

Me == Exchange("me", EmptyObj, me(cookies))

NextRoutes == Signin \/ Signout \/ Callback \/ Me

SpecRoutes == InitRoutes /\ [][NextRoutes]_vars

\* request i of the history is a callback that passes the three presence
\* checks: oauth_token and oauth_verifier in its query, and a signed
\* oauth_secret cookie among those it sent
PassedChecks(i) ==
  /\ history[i].route = "callback"
  /\ \A p \in {"oauth_token", "oauth_verifier"} :
        p \in DOMAIN history[i].query /\ history[i].query[p] # Str(<<>>)
  /\ "oauth_secret" \in DOMAIN history[i].sent
  /\ history[i].sent["oauth_secret"] \notin {Undef, Str(<<>>)}

\* before request i a callback passed the checks and no signout came after it
SignedIn(i) ==
  \E j \in 1..(i - 1) :
     /\ PassedChecks(j)
     /\ \A k \in (j + 1)..(i - 1) : history[k].route # "signout"

\* C14: /api/me calls getMe only if an earlier callback passed the three
\* presence checks and no signout came after it, and answers 400 without
\* calling getMe in every other case; a callback that fails a presence check
\* answers 400 and sets no cookie.
C14_MeOnlyAfterCallback ==
  \A i \in 1..Len(history) :
     /\ history[i].route = "me" =>
          /\ history[i].getMe => SignedIn(i)
          /\ ~SignedIn(i) => (history[i].status = 400 /\ ~history[i].getMe)
     /\ (history[i].route = "callback" /\ ~PassedChecks(i)) =>
          /\ history[i].status = 400
          /\ history[i].setCookie = {}
          /\ (IF i < Len(history) THEN history[i + 1].sent ELSE cookies) = history[i].sent

\* sign-in, a callback that passes, /api/me calls getMe, and after a
\* sign-out /api/me answers 400
C14_Witness ==
  /\ Len(history) = 5
  /\ history[1].route = "signin"
  /\ PassedChecks(2) /\ history[2].status = 200
  /\ history[3].route = "me" /\ history[3].getMe
  /\ history[4].route = "signout"
  /\ history[5].route = "me" /\ history[5].status = 400 /\ ~history[5].getMe

====
